---- MODULE Spec2Model ----
(***************************************************************************)
(* Model of conference_map_clean.py: the module top level (thread-cap      *)
(* environment variables, imports) and main(), a linear pipeline           *)
(*   load -> embed -> reduce -> fit -> render x3 -> write x3               *)
(* with one try/except around the rendering and writing statements.        *)
(*                                                                         *)
(* pc is the number of the source line about to execute.  Calls into the   *)
(* libraries (open, encode, fit_transform, visualize_*, write_html,        *)
(* savefig) either return or raise; what they compute is not modelled,     *)
(* what the script passes to them and does with an exception is.           *)
(***************************************************************************)
EXTENDS Integers, Sequences, FiniteSets

VARIABLES pc, exit, env, imported, file, docs, embeddings, umap_model,
          reduced_embeddings, hdbscan_model, topic_model, figures,
          written, printed, log

vars == <<pc, exit, env, imported, file, docs, embeddings, umap_model,
          reduced_embeddings, hdbscan_model, topic_model, figures,
          written, printed, log>>

(* ------------------------------ bounds --------------------------------- *)
\* longest input file, in characters, drawn from every string over Alphabet
MaxFileLen == 4
\* largest corpus of one-word lines ("a\n" repeated)
MaxDocs == 61

(* ------------------------------ constants ------------------------------ *)
NL == "\n"
Alphabet == {"a", " ", NL}
ThreadCap == "1"
EnvVars == {"OMP_NUM_THREADS", "OPENBLAS_NUM_THREADS", "MKL_NUM_THREADS",
            "VECLIB_MAXIMUM_THREADS", "NUMEXPR_NUM_THREADS"}
\* exit: Running while the interpreter executes, then the exit status
Running == -1
\* pc after the interpreter has left the script
End == 146

(* -------------------------- module top level --------------------------- *)
\* a copy-paste slip: line 10 sets the MKL variable a second time
EnvNameSlip(line) ==
    CASE line = 7 -> "OMP_NUM_THREADS"
      [] line = 8 -> "OPENBLAS_NUM_THREADS"
      [] line = 9 -> "MKL_NUM_THREADS"
      [] line = 10 -> "MKL_NUM_THREADS"
      [] line = 11 -> "NUMEXPR_NUM_THREADS"

EnvName(line) ==
    CASE line = 7 -> "OMP_NUM_THREADS"
      [] line = 8 -> "OPENBLAS_NUM_THREADS"
      [] line = 9 -> "MKL_NUM_THREADS"
      [] line = 10 -> "VECLIB_MAXIMUM_THREADS"
      [] line = 11 -> "NUMEXPR_NUM_THREADS"

(* ------------------------------ control -------------------------------- *)
\* the statement that follows a statement of the model, in program order
Succ(line) ==
    CASE line = 7 -> 8
      [] line = 8 -> 9
      [] line = 9 -> 10
      [] line = 10 -> 11
      [] line = 11 -> 13
      [] line = 13 -> 144
      [] line = 144 -> 36
      [] line = 36 -> 42
      [] line = 42 -> 48
      [] line = 48 -> 58
      [] line = 58 -> 64
      [] line = 64 -> 85
      [] line = 85 -> 96
      [] line = 96 -> 100
      [] line = 100 -> 101
      [] line = 101 -> 105
      [] line = 105 -> 118
      [] line = 118 -> 122
      [] line = 122 -> 126
      [] line = 126 -> 129
      [] line = 129 -> 141
      [] line = 136 -> 141
      [] line = 141 -> End

\* a try block that also covers loading, embedding, reduction and fitting
InTryWide(line) == line \in 36..133

\* a try block that ends before the files are saved
InTryNarrow(line) == line \in 94..113

\* the statements inside try: ... except Exception
InTry(line) == line \in 94..133

\* each call guarded on its own: report and go on with the next statement
RaiseAndContinue(line) ==
    /\ pc' = Succ(line)
    /\ exit' = exit

\* an exception raised by the statement at line: caught by the handler when
\* the statement is inside the try block, otherwise it leaves main and the
\* interpreter prints the stack trace and exits with status 1
Raise(line) ==
    IF InTry(line)
    THEN /\ pc' = 136
         /\ exit' = exit
    ELSE /\ pc' = End
         /\ exit' = 1

Return(line) ==
    /\ pc' = Succ(line)
    /\ exit' = exit

Logged(line, ok) == log' = Append(log, [line |-> line, ok |-> ok])

(* ------------------------------ the loader ----------------------------- *)
RECURSIVE FirstNL(_, _)
\* index of the first newline of s at or after i, Len(s) when there is none
FirstNL(s, i) ==
    IF i >= Len(s) THEN Len(s)
    ELSE IF s[i] = NL THEN i ELSE FirstNL(s, i + 1)

RECURSIVE readlines(_)
\* file.readlines(): the lines of the file, each keeping its newline
readlines(s) ==
    IF s = <<>> THEN <<>>
    ELSE LET k == FirstNL(s, 1)
         IN  <<SubSeq(s, 1, k)>> \o readlines(SubSeq(s, k + 1, Len(s)))

\* a strip that removes nothing
rstripNone(s) == s

RECURSIVE rstrip(_)
\* str.rstrip("\n"): drop every trailing newline
rstrip(s) ==
    IF s # <<>> /\ s[Len(s)] = NL THEN rstrip(SubSeq(s, 1, Len(s) - 1)) ELSE s

\* [item.rstrip("\n") for item in lines if item != "\n"]
LoadDocs(content) ==
    LET lines == readlines(content)
        kept == SelectSeq(lines, LAMBDA item : item # <<NL>>)
    IN  [i \in 1..Len(kept) |-> rstrip(kept[i])]

SmallFiles == UNION {[1..k -> Alphabet] : k \in 0..MaxFileLen}
SizedFile(n) == [i \in 1..(2 * n) |-> IF i % 2 = 1 THEN "a" ELSE NL]
Files == SmallFiles \cup {SizedFile(n) : n \in 0..MaxDocs}

(* ------------------------------ parameters ----------------------------- *)
Min(a, b) == IF a < b THEN a ELSE b
Max(a, b) == IF a > b THEN a ELSE b

\* the corpus size itself, without the - 1
NNeighborsNoMinusOne(n) == Min(15, n)

\* n_neighbors = min(15, len(docs) - 1)
NNeighbors(n) == Min(15, n - 1)

\* no floor of 2
MinClusterSizeNoFloor(n) == n \div 20

\* min_cluster_size = max(2, len(docs) // 20)
MinClusterSize(n) == Max(2, n \div 20)

(* ------------------------------ output files --------------------------- *)
\* the two later file names exchanged
OutputFileSwapped(line) ==
    CASE line = 118 -> "titles_document.html"
      [] line = 122 -> "titles_datamap.png"
      [] line = 126 -> "titles_hierarchical.html"

OutputFile(line) ==
    CASE line = 118 -> "titles_document.html"
      [] line = 122 -> "titles_hierarchical.html"
      [] line = 126 -> "titles_datamap.png"

(* ------------------------------ initial state -------------------------- *)
Init ==
    /\ pc = 7
    /\ exit = Running
    /\ env \in [EnvVars -> {"unset", "1", "4"}]
    /\ imported = FALSE
    /\ file = <<>>
    /\ docs = <<>>
    /\ embeddings = FALSE
    /\ umap_model = [constructed |-> FALSE, n_neighbors |-> 0, fitted |-> FALSE]
    /\ reduced_embeddings = FALSE
    /\ hdbscan_model = [constructed |-> FALSE, min_cluster_size |-> 0]
    /\ topic_model = [constructed |-> FALSE, fitted |-> FALSE]
    /\ figures = {}
    /\ written = <<>>
    /\ printed = <<>>
    /\ log = <<>>

(* ------------------------------ console -------------------------------- *)
\* the print statements that run before the call at a line
PrintsBefore(line) ==
    CASE line = 42 -> <<"Creating embeddings...">>
      [] line = 48 -> <<"Reducing dimensions with UMAP...">>
      [] line = 64 -> <<"Training BERTopic model...">>
      [] line = 85 -> <<"Fitting topic model...">>
      [] line = 96 -> <<"Creating document visualization...">>
      [] line = 100 -> <<"Creating hierarchical clustering...">>
      [] line = 105 -> <<"Creating document datamap...">>
      [] OTHER -> <<>>

\* the print statements that run after the call at a line has returned
PrintsAfter(line) ==
    CASE line = 36 -> <<"Loaded documents">>
      [] line = 85 -> <<"Found topics", "Topic distribution",
                        "Creating visualizations...">>
      [] line = 105 -> <<"Visualization types:", "figure_doc",
                         "fig_hierarchical_clustering", "figure_datamap",
                         "Saving visualizations to HTML files...">>
      [] line = 118 -> <<"Saved titles_document.html">>
      [] line = 122 -> <<"Saved titles_hierarchical.html">>
      [] line = 126 -> <<"Saved titles_datamap.png">>
      [] OTHER -> <<>>

SuccessPrints == <<"Successfully created all visualizations!",
                   "View the following files in your browser:",
                   "titles_document.html", "titles_hierarchical.html",
                   "titles_datamap.png">>

HandlerPrints == <<"Error during visualization", "Traceback",
                   "The model was trained successfully, but visualization failed.",
                   "Topics found">>

Returned(line) ==
    /\ printed' = printed \o PrintsBefore(line) \o PrintsAfter(line)
    /\ Logged(line, TRUE)
    /\ Return(line)

Raised(line) ==
    /\ printed' = printed \o PrintsBefore(line)
    /\ Logged(line, FALSE)
    /\ Raise(line)

(* ------------------------------ actions -------------------------------- *)
\* lines 7-11: os.environ[...] = "1"
SetEnv ==
    /\ pc \in 7..11
    /\ env' = [env EXCEPT ![EnvName(pc)] = ThreadCap]
    /\ Return(pc)
    /\ UNCHANGED <<imported, file, docs, embeddings, umap_model,
                   reduced_embeddings, hdbscan_model, topic_model, figures,
                   written, printed, log>>

\* lines 13-28: the imports of the numeric and plotting libraries
Imports ==
    /\ pc = 13
    /\ imported' = TRUE
    /\ Return(13)
    /\ UNCHANGED <<env, file, docs, embeddings, umap_model,
                   reduced_embeddings, hdbscan_model, topic_model, figures,
                   written, printed, log>>

\* lines 144-145: if __name__ == "__main__": main()
CallMain ==
    /\ pc = 144
    /\ Return(144)
    /\ UNCHANGED <<env, imported, file, docs, embeddings, umap_model,
                   reduced_embeddings, hdbscan_model, topic_model, figures,
                   written, printed, log>>

\* lines 36-38: the file is read and the documents are kept
LoadOk ==
    /\ pc = 36
    /\ \E content \in Files :
          /\ file' = content
          /\ docs' = LoadDocs(content)
    /\ Returned(36)
    /\ UNCHANGED <<env, imported, embeddings, umap_model, reduced_embeddings,
                   hdbscan_model, topic_model, figures, written>>

\* line 36: open() raises (no titles.txt)
LoadFail ==
    /\ pc = 36
    /\ Raised(36)
    /\ UNCHANGED <<env, imported, file, docs, embeddings, umap_model,
                   reduced_embeddings, hdbscan_model, topic_model, figures,
                   written>>

\* lines 41-43: SentenceTransformer(...).encode(docs)
EncodeOk ==
    /\ pc = 42
    /\ embeddings' = TRUE
    /\ Returned(42)
    /\ UNCHANGED <<env, imported, file, docs, umap_model, reduced_embeddings,
                   hdbscan_model, topic_model, figures, written>>

EncodeFail ==
    /\ pc = 42
    /\ Raised(42)
    /\ UNCHANGED <<env, imported, file, docs, embeddings, umap_model,
                   reduced_embeddings, hdbscan_model, topic_model, figures,
                   written>>

\* lines 46-57: n_neighbors is computed and the UMAP object constructed
MakeUMAP ==
    /\ pc = 48
    /\ umap_model' = [constructed |-> TRUE,
                      n_neighbors |-> NNeighbors(Len(docs)),
                      fitted |-> FALSE]
    /\ Returned(48)
    /\ UNCHANGED <<env, imported, file, docs, embeddings, reduced_embeddings,
                   hdbscan_model, topic_model, figures, written>>

\* line 58: reduced_embeddings = umap_model.fit_transform(embeddings)
UmapFitOk ==
    /\ pc = 58
    /\ umap_model' = [umap_model EXCEPT !.fitted = TRUE]
    /\ reduced_embeddings' = TRUE
    /\ Returned(58)
    /\ UNCHANGED <<env, imported, file, docs, embeddings, hdbscan_model,
                   topic_model, figures, written>>

UmapFitFail ==
    /\ pc = 58
    /\ Raised(58)
    /\ UNCHANGED <<env, imported, file, docs, embeddings, umap_model,
                   reduced_embeddings, hdbscan_model, topic_model, figures,
                   written>>

\* lines 61-81: HDBSCAN, CountVectorizer and BERTopic are constructed
MakeModels ==
    /\ pc = 64
    /\ hdbscan_model' = [constructed |-> TRUE,
                         min_cluster_size |-> MinClusterSize(Len(docs))]
    /\ topic_model' = [constructed |-> TRUE, fitted |-> FALSE]
    /\ Returned(64)
    /\ UNCHANGED <<env, imported, file, docs, embeddings, umap_model,
                   reduced_embeddings, figures, written>>

\* lines 84-91: topic_model.fit_transform(docs, embeddings) and the summary
FitOk ==
    /\ pc = 85
    /\ topic_model' = [topic_model EXCEPT !.fitted = TRUE]
    /\ Returned(85)
    /\ UNCHANGED <<env, imported, file, docs, embeddings, umap_model,
                   reduced_embeddings, hdbscan_model, figures, written>>

FitFail ==
    /\ pc = 85
    /\ Raised(85)
    /\ UNCHANGED <<env, imported, file, docs, embeddings, umap_model,
                   reduced_embeddings, hdbscan_model, topic_model, figures,
                   written>>

RenderLines == {96, 100, 101, 105}
WriteLines == {118, 122, 126}

\* what the rendering call at a line is assigned to
Rendered(line) ==
    CASE line = 96 -> "figure_doc"
      [] line = 100 -> "hierarchical_topics"
      [] line = 101 -> "fig_hierarchical_clustering"
      [] line = 105 -> "figure_datamap"

\* lines 95-115: visualize_documents, hierarchical_topics,
\* visualize_hierarchy, visualize_document_datamap
RenderOk ==
    /\ pc \in RenderLines
    /\ figures' = figures \cup {Rendered(pc)}
    /\ Returned(pc)
    /\ UNCHANGED <<env, imported, file, docs, embeddings, umap_model,
                   reduced_embeddings, hdbscan_model, topic_model, written>>

RenderFail ==
    /\ pc \in RenderLines
    /\ Raised(pc)
    /\ UNCHANGED <<env, imported, file, docs, embeddings, umap_model,
                   reduced_embeddings, hdbscan_model, topic_model, figures,
                   written>>

\* lines 118-127: write_html, write_html, savefig
WriteOk ==
    /\ pc \in WriteLines
    /\ written' = Append(written, OutputFile(pc))
    /\ Returned(pc)
    /\ UNCHANGED <<env, imported, file, docs, embeddings, umap_model,
                   reduced_embeddings, hdbscan_model, topic_model, figures>>

WriteFail ==
    /\ pc \in WriteLines
    /\ Raised(pc)
    /\ UNCHANGED <<env, imported, file, docs, embeddings, umap_model,
                   reduced_embeddings, hdbscan_model, topic_model, figures,
                   written>>

\* lines 129-133: the closing messages of the try block
Success ==
    /\ pc = 129
    /\ printed' = printed \o SuccessPrints
    /\ Return(129)
    /\ UNCHANGED <<env, imported, file, docs, embeddings, umap_model,
                   reduced_embeddings, hdbscan_model, topic_model, figures,
                   written, log>>

\* lines 135-140: except Exception as e
Handler ==
    /\ pc = 136
    /\ printed' = printed \o HandlerPrints
    /\ Return(136)
    /\ UNCHANGED <<env, imported, file, docs, embeddings, umap_model,
                   reduced_embeddings, hdbscan_model, topic_model, figures,
                   written, log>>

\* line 141 and the return from main: the interpreter exits with status 0
Finish ==
    /\ pc = 141
    /\ printed' = Append(printed, "Open the file in your browser")
    /\ pc' = Succ(141)
    /\ exit' = 0
    /\ UNCHANGED <<env, imported, file, docs, embeddings, umap_model,
                   reduced_embeddings, hdbscan_model, topic_model, figures,
                   written, log>>

Next ==
    \/ SetEnv
    \/ Imports
    \/ CallMain
    \/ LoadOk
    \/ LoadFail
    \/ EncodeOk
    \/ EncodeFail
    \/ MakeUMAP
    \/ UmapFitOk
    \/ UmapFitFail
    \/ MakeModels
    \/ FitOk
    \/ FitFail
    \/ RenderOk
    \/ RenderFail
    \/ WriteOk
    \/ WriteFail
    \/ Success
    \/ Handler
    \/ Finish

Spec == Init /\ [][Next]_vars

(* ------------------------------ properties ----------------------------- *)
Range(s) == {s[i] : i \in DOMAIN s}
FailedAt(S) == \E i \in DOMAIN log : ~log[i].ok /\ log[i].line \in S
CalledAt(line) == \E i \in DOMAIN log : log[i].line = line
FatalLines == {36, 42, 58, 85}
AllOutputs == <<"titles_document.html", "titles_hierarchical.html",
                "titles_datamap.png">>

\* C1: once a rendering call or a file-writing call has raised, the exception
\* is in the hands of the handler: the run never ends with a non-zero status,
\* once the handler has run the error message, the traceback and the
\* topic-info table have been printed in that order, and the run ends with
\* exit status 0.
C1_HandlerCatches ==
    FailedAt(RenderLines \cup WriteLines) =>
        /\ pc \in {136, 141, End}
        /\ exit # 1
        /\ pc # 136 =>
              \E i, j, k \in DOMAIN printed :
                  /\ i < j /\ j < k
                  /\ printed[i] = "Error during visualization"
                  /\ printed[j] = "Traceback"
                  /\ printed[k] = "Topics found"
        /\ pc = End => exit = 0

C1_Witness ==
    /\ FailedAt({126})
    /\ exit = 0
    /\ "Topics found" \in Range(printed)

\* C2: a failure of loading, embedding, reduction or fitting ends the run at
\* once with a non-zero status, is the last call of the run (no retry) and
\* leaves no output file written; and no file is ever written before the fit
\* has returned.
C2_FatalNoOutput ==
    /\ FailedAt(FatalLines) =>
          /\ pc = End
          /\ exit = 1
          /\ ~log[Len(log)].ok
          /\ written = <<>>
    /\ written # <<>> => topic_model.fitted /\ ~FailedAt(FatalLines)

C2_Witness ==
    /\ FailedAt({85})
    /\ exit = 1
    /\ reduced_embeddings

\* C3: the documents are, in file order, the lines of the file that are not
\* a lone newline, without their newline: a document starts wherever a line
\* starts on a character other than the newline, runs up to the next newline
\* or the end of the file, and there are as many documents as such lines.
LineStarts(s) == {p \in 1..Len(s) : p = 1 \/ s[p - 1] = NL}
DocStarts(s) == {p \in LineStarts(s) : s[p] # NL}
NthStart(s, i) ==
    CHOOSE p \in DocStarts(s) :
        Cardinality({q \in DocStarts(s) : q < p}) = i - 1

C3_LoaderLines ==
    (CalledAt(36) /\ log[1].ok) =>
        /\ Len(docs) = Cardinality(DocStarts(file))
        /\ \A i \in 1..Len(docs) :
              LET p == NthStart(file, i)
                  d == docs[i]
              IN  /\ NL \notin Range(d)
                  /\ \A k \in 1..Len(d) : file[p + k - 1] = d[k]
                  /\ \/ p + Len(d) > Len(file)
                     \/ file[p + Len(d)] = NL

C3_Witness ==
    /\ pc = 42
    /\ file = <<"a", NL, NL, " ">>
    /\ docs = << <<"a">>, <<" ">> >>

\* C4: the n_neighbors given to the reducer is the smaller of 15 and n - 1
\* for the corpus size n: never above 15, never above n - 1, one of the two;
\* 1 for n = 2, and 0 for n = 1.
C4_NeighborsBound ==
    umap_model.constructed =>
        LET n == Len(docs)
            k == umap_model.n_neighbors
        IN  /\ k <= 15
            /\ k <= n - 1
            /\ k = 15 \/ k = n - 1
            /\ n = 2 => k = 1
            /\ n = 1 => k = 0

\* a corpus of one document: 0 reaches the reducer's fit_transform
C4_Witness ==
    /\ Len(docs) = 1
    /\ umap_model.n_neighbors = 0
    /\ CalledAt(58)

\* C5: the min_cluster_size given to the clusterer is at least 2, and is
\* floor(n / 20) whenever that is 2 or more; 2 for n = 10.
C5_MinClusterSize ==
    hdbscan_model.constructed =>
        LET n == Len(docs)
            m == hdbscan_model.min_cluster_size
        IN  /\ m >= 2
            /\ m = 2 \/ (20 * m <= n /\ n < 20 * m + 20)
            /\ n >= 40 => (20 * m <= n /\ n < 20 * m + 20)
            /\ n = 10 => m = 2

C5_Witness ==
    /\ Len(docs) = 10
    /\ hdbscan_model.constructed
    /\ hdbscan_model.min_cluster_size = 2

\* C6: from the imports on, in every state of the run, each of the five
\* thread-cap variables is "1".
C6_ThreadCaps ==
    imported => \A v \in EnvVars : env[v] = "1"

C6_Witness ==
    /\ imported
    /\ exit = 0
    /\ env["VECLIB_MAXIMUM_THREADS"] = "1"

\* C8: the calls of a run are made in program order, each at most once; the
\* first belongs to the Loader, each next one to the same stage or the stage
\* after it; every call but the last has returned normally.
StageOf(line) ==
    CASE line = 36 -> 1
      [] line = 42 -> 2
      [] line \in {48, 58} -> 3
      [] line \in {64, 85} -> 4
      [] line \in RenderLines -> 5
      [] line \in WriteLines -> 6

C8_StageOrder ==
    \A i \in DOMAIN log :
        /\ i < Len(log) => log[i].ok
        /\ i = 1 => StageOf(log[i].line) = 1
        /\ i > 1 =>
              /\ log[i - 1].line < log[i].line
              /\ StageOf(log[i].line) - StageOf(log[i - 1].line) \in {0, 1}

C8_Witness ==
    /\ Len(log) = 13
    /\ \A i \in DOMAIN log : log[i].ok
    /\ exit = 0

\* C9: once a rendering call has raised, it stays the last call of the run
\* and no output file is written.
C9_RenderAbortsAll ==
    FailedAt(RenderLines) =>
        /\ ~log[Len(log)].ok
        /\ log[Len(log)].line \in RenderLines
        /\ written = <<>>

\* the datamap rendering raises after the two earlier figures were made
C9_Witness ==
    /\ FailedAt({105})
    /\ {"figure_doc", "fig_hierarchical_clustering"} \subseteq figures
    /\ exit = 0

\* C10: the files written so far are the first files of the order document,
\* hierarchical, datamap; the success message is printed only when all three
\* are written.
C10_WritePrefix ==
    /\ Len(written) <= 3
    /\ written = SubSeq(AllOutputs, 1, Len(written))
    /\ "Successfully created all visualizations!" \in Range(printed)
          => written = AllOutputs

C10_Witness ==
    /\ "Successfully created all visualizations!" \in Range(printed)
    /\ Len(written) = 3

====
